---- MODULE Spec2Model ----
(***************************************************************************)
(* Remove Coupling tool (script.py): for each selected coupling, find the  *)
(* two pipes attached to it, disconnect and delete the coupling, then      *)
(* reconnect the two pipes with the six-method chain                       *)
(* TRUE_TRIM -> EXTEND_BOTH -> UNION -> CONNECTOR -> EXTEND -> SEGMENT.    *)
(*                                                                         *)
(* Geometry is one-dimensional: every pipe lies on one line, a point is an *)
(* integer number of 1/U feet, a curve is a pair <<start, end>>.  The host *)
(* (Revit) is modelled by the document `doc`; a host call that can throw   *)
(* throws or not by nondeterministic choice, at most MaxFaults times in a  *)
(* run.                                                                    *)
(***************************************************************************)
EXTENDS Integers, Sequences, FiniteSets, TLC

\* ------------------------------------------------------------------ bounds
MaxFaults == 4

\* Model units per foot: a power of two, so that the midpoints the script
\* computes stay integers.
U == 2 * 2 * 2 * 2

\* --------------------------------------------------------------- elements
InitPipes  == {"A", "B", "C"}
NewIds     == <<"N1", "N2", "N3", "N4">>
NewPipes   == {NewIds[k] : k \in 1..Len(NewIds)}
Pipes      == InitPipes \cup NewPipes
Junctions  == {"J1", "J2"}
Externals  == {"X1", "X2"}
Elements   == Pipes \cup Junctions \cup Externals

\* The order in which the host enumerates elements and connectors.
ElemOrder == <<"A", "B", "C", "N1", "N2", "N3", "N4", "J1", "J2", "X1", "X2">>
ElemRank(e) == CHOOSE k \in 1..Len(ElemOrder) : ElemOrder[k] = e

\* A connector is <<owner, index>>; a link is a set of two connectors.
Owner(c) == c[1]
PortRank(c) == 2 * ElemRank(c[1]) + c[2]
Link(c, d) == {c, d}

\* ------------------------------------------------------------- sequences
RECURSIVE SortByRank(_)
SortByRank(S) ==
    IF S = {} THEN <<>>
    ELSE LET m == CHOOSE c \in S : \A d \in S : PortRank(c) <= PortRank(d)
         IN  <<m>> \o SortByRank(S \ {m})

RECURSIVE SortElems(_)
SortElems(S) ==
    IF S = {} THEN <<>>
    ELSE LET m == CHOOSE e \in S : \A f \in S : ElemRank(e) <= ElemRank(f)
         IN  <<m>> \o SortElems(S \ {m})

Range(s) == {s[k] : k \in 1..Len(s)}

RECURSIVE Flatten(_)
Flatten(ss) == IF ss = <<>> THEN <<>> ELSE Head(ss) \o Flatten(Tail(ss))

\* Subsets of S with at most n elements.
RECURSIVE SubsetsUpTo(_, _)
SubsetsUpTo(S, n) ==
    IF n <= 0 \/ S = {} THEN {{}}
    ELSE LET x == CHOOSE y \in S : TRUE
             rest == S \ {x}
         IN  SubsetsUpTo(rest, n) \cup {T \cup {x} : T \in SubsetsUpTo(rest, n - 1)}

\* ---------------------------------------------------------------- geometry
Abs(x) == IF x < 0 THEN -x ELSE x
DistanceTo(p, q) == Abs(p - q)
Length(curve) == Abs(curve[2] - curve[1])
Sign(x) == IF x > 0 THEN 1 ELSE IF x < 0 THEN -1 ELSE 0
Direction(curve) == Sign(curve[2] - curve[1])
DotProduct(d1, d2) == d1 * d2
CreateBound(p, q) == <<p, q>>
Min2(a, b) == IF a <= b THEN a ELSE b
Max2(a, b) == IF a >= b THEN a ELSE b
\* Curve.Project(point).XYZPoint: the point of the curve closest to `point`.
Project(curve, point) ==
    Max2(Min2(curve[1], curve[2]), Min2(Max2(curve[1], curve[2]), point))
Midpoint(p, q) == (p + q) \div 2

\* ----------------------------------------------------------- the document
\* doc.alive: elements in the document; doc.span: Location.Curve of a pipe;
\* doc.links: connector links; doc.jloc: Location.Point of a coupling;
\* doc.created: how many of NewIds the host has handed out.
IsPipe(e) == e \in Pipes

IsConnected(d, c) == \E l \in d.links : c \in l
AllRefs(d, c) == SortByRank({r \in UNION d.links : Link(c, r) \in d.links /\ r # c})

\* Connector.Origin of a pipe connector: the endpoint it sits on.
Origin(d, c) == d.span[c[1]][c[2] + 1]

\* ConnectorManager.Connectors of an element.
Connectors(d, e) ==
    IF e \notin d.alive THEN <<>>
    ELSE IF e \in Externals THEN << <<e, 0>> >>
    ELSE << <<e, 0>>, <<e, 1>> >>

get_pipe_connections(d, pipe) == Connectors(d, pipe)

ConnectTo(d, c1, c2) == [d EXCEPT !.links = @ \cup {Link(c1, c2)}]
DisconnectFrom(d, c1, c2) == [d EXCEPT !.links = @ \ {Link(c1, c2)}]
\* doc.Delete: the element and every link of its connectors go.
Delete(d, e) ==
    [d EXCEPT !.alive = @ \ {e},
              !.links = {l \in @ : \A c \in l : Owner(c) # e}]

\* ------------------------------------------------------------- discovery
\* Faulty variant: duplicates are not removed.
KeepAll(s, seen) == s
RECURSIVE Unique(_, _)
Unique(s, seen) ==
    IF s = <<>> THEN <<>>
    ELSE IF Head(s) \in seen THEN Unique(Tail(s), seen)
    ELSE <<Head(s)>> \o Unique(Tail(s), seen \cup {Head(s)})

RECURSIVE SelectPipes(_, _)
SelectPipes(refs, coupling) ==
    IF refs = <<>> THEN <<>>
    ELSE (IF IsPipe(Owner(Head(refs))) /\ Owner(Head(refs)) # coupling
          THEN <<Owner(Head(refs))>> ELSE <<>>)
         \o SelectPipes(Tail(refs), coupling)

\* Methods 1/2: walk the coupling's connectors.
WalkConnectors(d, coupling) ==
    LET cs == Connectors(d, coupling)
    IN  Flatten([k \in 1..Len(cs) |->
                   IF IsConnected(d, cs[k])
                   THEN SelectPipes(AllRefs(d, cs[k]), coupling)
                   ELSE <<>>])

NearTolerance == 1 * U

RECURSIVE SelectSeq2(_, _, _)
SelectSeq2(s, d, point) ==
    IF s = <<>> THEN <<>>
    ELSE (IF DistanceTo(point, Project(d.span[Head(s)], point)) < NearTolerance
          THEN <<Head(s)>> ELSE <<>>)
         \o SelectSeq2(Tail(s), d, point)

\* Method 3: every pipe of the document closer than 1 foot to the coupling.
NearbyPipes(d, coupling) ==
    SelectSeq2(SortElems({p \in Pipes : p \in d.alive}), d, d.jloc[coupling])

\* Faulty variant: the proximity search runs whatever the walk found.
FindAlsoNearby(d, coupling) ==
    Unique(WalkConnectors(d, coupling) \o NearbyPipes(d, coupling), {})
find_connected_pipes(d, coupling) ==
    LET walked == WalkConnectors(d, coupling)
        connected_pipes == IF Len(walked) = 0 THEN NearbyPipes(d, coupling)
                           ELSE walked
    IN  Unique(connected_pipes, {})


\* ------------------------------------------------------- endpoint pairing
\* The four endpoint pairs in list order: (start,start), (start,end),
\* (end,start), (end,end); a pair is <<index in curve1, index in curve2>>.
Pairing == << <<1, 1>>, <<1, 2>>, <<2, 1>>, <<2, 2>> >>
PairDistance(c1, c2, k) == DistanceTo(c1[Pairing[k][1]], c2[Pairing[k][2]])

\* distances.sort(key=...)[0]: the sort is stable, so the first pair of the
\* list among those at the smallest distance.
NearestPair(c1, c2) ==
    CHOOSE k \in 1..4 :
        /\ \A j \in 1..4 : PairDistance(c1, c2, k) <= PairDistance(c1, c2, j)
        /\ \A j \in 1..(k - 1) : PairDistance(c1, c2, j) > PairDistance(c1, c2, k)

\* The loop `if dist < min_dist` of methods 5 and 6: the first strict minimum.
BestConfig(c1, c2) ==
    CHOOSE k \in 1..4 :
        /\ \A j \in 1..(k - 1) : PairDistance(c1, c2, k) < PairDistance(c1, c2, j)
        /\ \A j \in (k + 1)..4 : PairDistance(c1, c2, k) <= PairDistance(c1, c2, j)

\* --------------------------------------------------- method 1: TRUE TRIM
\* Faulty variant: a gate tighter than that of EXTEND BOTH.
TrimGateBelowExtendBoth == 4 * U
TrimGate == 10 * U
\* Faulty variant: a trim gate tighter than the gate of EXTEND BOTH.
TooFarToTrimTight(min_distance) == min_distance > 4 * U
TooFarToTrim(min_distance) == min_distance > TrimGate

\* Faulty variant: pipe2 is kept when the lengths are equal.
KeepFirstStrict(curve1, curve2) == Length(curve1) > Length(curve2)
\* curve1_length >= curve2_length: pipe1 is kept.
KeepFirst(curve1, curve2) == Length(curve1) >= Length(curve2)

\* Faulty variant: the direction check left out.
ContinuousCurveUnchecked(main_curve, new_start, new_end) ==
    CreateBound(new_start, new_end)

\* The new curve of the kept pipe, start and end swapped when its direction
\* is opposite to the original direction.
ContinuousCurve(main_curve, new_start, new_end) ==
    LET candidate == CreateBound(new_start, new_end)
        dot_product == DotProduct(Direction(main_curve), Direction(candidate))
    IN  IF dot_product < 0 THEN CreateBound(new_end, new_start) ELSE candidate

\* The curve the kept pipe is stretched to, given the nearest pair m of
\* (keeper endpoint, other pipe's endpoint).
PlanFor(main_curve, extend_curve, m) ==
    [from_start |-> Pairing[m][1] = 1,
     connection_point |-> main_curve[Pairing[m][1]],
     extend_to_point |-> extend_curve[3 - Pairing[m][2]],
     continuous_curve |->
         IF Pairing[m][1] = 1
         THEN ContinuousCurve(main_curve, extend_curve[3 - Pairing[m][2]],
                              main_curve[2])
         ELSE ContinuousCurve(main_curve, main_curve[1],
                              extend_curve[3 - Pairing[m][2]]),
     backup_curve |->
         IF Pairing[m][1] = 1
         THEN CreateBound(main_curve[Pairing[m][1]], main_curve[2])
         ELSE CreateBound(main_curve[1], main_curve[Pairing[m][1]])]

TrimPlan(main_curve, extend_curve) ==
    PlanFor(main_curve, extend_curve, NearestPair(main_curve, extend_curve))

\* Step 2: one record per external reference of the pipe to delete.
RECURSIVE RefsNotOwnedBy(_, _)
RefsNotOwnedBy(refs, e) ==
    IF refs = <<>> THEN <<>>
    ELSE (IF Owner(Head(refs)) # e THEN <<Head(refs)>> ELSE <<>>)
         \o RefsNotOwnedBy(Tail(refs), e)

RECURSIVE RefsOwnedBy(_, _)
RefsOwnedBy(refs, e) ==
    IF refs = <<>> THEN <<>>
    ELSE (IF Owner(Head(refs)) = e THEN <<Head(refs)>> ELSE <<>>)
         \o RefsOwnedBy(Tail(refs), e)

\* Faulty variant: the connections of the pipe to delete are not recorded.
NothingToTransfer(d, delete_pipe) == <<>>
ConnectionsToTransfer(d, delete_pipe) ==
    LET cs == get_pipe_connections(d, delete_pipe)
    IN  Flatten([k \in 1..Len(cs) |->
                   IF IsConnected(d, cs[k])
                   THEN LET refs == RefsNotOwnedBy(AllRefs(d, cs[k]), delete_pipe)
                        IN  [j \in 1..Len(refs) |->
                               [element |-> Owner(refs[j]),
                                connector |-> refs[j],
                                position |-> Origin(d, cs[k])]]
                   ELSE <<>>])

\* Step 4, inner loop: the free connector of the kept pipe closest to the
\* position (the first one on a tie), or NoConnector.
NoConnector == <<"none", 0>>
ReconnectTolerance == 1 * U

\* Faulty variant: connectors already connected are candidates too.
ClosestOfAll(d, keep_pipe, target_position) ==
    LET cs == get_pipe_connections(d, keep_pipe)
        dist(k) == DistanceTo(Origin(d, cs[k]), target_position)
    IN  IF cs = <<>> THEN NoConnector
        ELSE cs[CHOOSE k \in 1..Len(cs) :
                    /\ \A j \in 1..Len(cs) : dist(k) <= dist(j)
                    /\ \A j \in 1..Len(cs) : j < k => dist(j) > dist(k)]
ClosestConnector(d, keep_pipe, target_position) ==
    LET cs == get_pipe_connections(d, keep_pipe)
        free == {k \in 1..Len(cs) : ~IsConnected(d, cs[k])}
        dist(k) == DistanceTo(Origin(d, cs[k]), target_position)
    IN  IF free = {} THEN NoConnector
        ELSE cs[CHOOSE k \in free :
                    /\ \A j \in free : dist(k) <= dist(j)
                    /\ \A j \in free : j < k => dist(j) > dist(k)]

CloseEnough(d, c, target_position) ==
    c # NoConnector /\ DistanceTo(Origin(d, c), target_position) < ReconnectTolerance

\* Step 4: connections k..Len(conns), in order; ConnectTo k throws when
\* <<"tt_connect", k>> is in f.  Gives the document and the calls made.
RECURSIVE Reconnect(_, _, _, _, _)
Reconnect(d, keep_pipe, conns, k, f) ==
    IF k > Len(conns) THEN [d |-> d, ops |-> {}]
    ELSE LET closest_connector == ClosestConnector(d, keep_pipe, conns[k].position)
             call == CloseEnough(d, closest_connector, conns[k].position)
             d1 == IF call /\ <<"tt_connect", k>> \notin f
                   THEN ConnectTo(d, closest_connector, conns[k].connector)
                   ELSE d
             r == Reconnect(d1, keep_pipe, conns, k + 1, f)
         IN  [d |-> r.d,
              ops |-> r.ops \cup (IF call THEN {<<"tt_connect", k>>} ELSE {})]

\* Step 5: the (connector, external reference) pairs of the pipe to delete.
RefsToDisconnect(d, delete_pipe) ==
    LET cs == get_pipe_connections(d, delete_pipe)
    IN  Flatten([k \in 1..Len(cs) |->
                   IF IsConnected(d, cs[k])
                   THEN LET refs == RefsNotOwnedBy(AllRefs(d, cs[k]), delete_pipe)
                        IN  [j \in 1..Len(refs) |-> <<cs[k], refs[j]>>]
                   ELSE <<>>])

\* Faulty variant: no DisconnectFrom call is made.
DisconnectNone(d, pairs, site, f) == d
\* DisconnectFrom on each pair of `pairs`; call k throws when <<site, k>> is
\* in f.
DisconnectAll(d, pairs, site, f) ==
    [d EXCEPT !.links =
        @ \ {Link(pairs[k][1], pairs[k][2]) :
                k \in {j \in 1..Len(pairs) : <<site, j>> \notin f}}]

Calls(site, n) == {<<site, k>> : k \in 1..n}

SpanFault   == <<"tt_span", 0>>
BackupFault == <<"tt_backup", 0>>
DeleteFault == <<"tt_delete", 0>>

SetCurve(d, pipe, curve) == [d EXCEPT !.span[pipe] = curve]

\* Faulty variant: a rejected deletion of the other pipe makes TRUE TRIM
\* report failure.
TrimFinishStrict(r, pairs, delete_pipe, conns, f) ==
    [ok |-> DeleteFault \notin f,
     path |-> "main",
     d |-> IF DeleteFault \in f
           THEN DisconnectAll(r.d, pairs, "tt_disc", f)
           ELSE Delete(DisconnectAll(r.d, pairs, "tt_disc", f), delete_pipe),
     at_delete |-> DisconnectAll(r.d, pairs, "tt_disc", f),
     conns |-> conns,
     ops |-> r.ops \cup Calls("tt_disc", Len(pairs)) \cup {SpanFault, DeleteFault}]
\* Step 5 and the deletion of the other pipe, after step 4 gave r.
TrimFinish(r, pairs, delete_pipe, conns, f) ==
    [ok |-> TRUE,
     path |-> "main",
     d |-> IF DeleteFault \in f
           THEN DisconnectAll(r.d, pairs, "tt_disc", f)
           ELSE Delete(DisconnectAll(r.d, pairs, "tt_disc", f), delete_pipe),
     at_delete |-> DisconnectAll(r.d, pairs, "tt_disc", f),
     conns |-> conns,
     ops |-> r.ops \cup Calls("tt_disc", Len(pairs)) \cup {SpanFault, DeleteFault}]

TrimDisconnect(r, delete_pipe, conns, f) ==
    TrimFinish(r, RefsToDisconnect(r.d, delete_pipe), delete_pipe, conns, f)

\* Steps 2-4 on the document d1 in which the kept pipe is stretched.
TrimTransfer(d1, keep_pipe, delete_pipe, conns, f) ==
    TrimDisconnect(Reconnect(d1, keep_pipe, conns, 1, f), delete_pipe, conns, f)

TrimMainPath(d1, keep_pipe, delete_pipe, f) ==
    TrimTransfer(d1, keep_pipe, delete_pipe,
                 ConnectionsToTransfer(d1, delete_pipe), f)

MinDistance(curve1, curve2) ==
    PairDistance(curve1, curve2, NearestPair(curve1, curve2))

KeepPipe(d, p1, p2) == IF KeepFirst(d.span[p1], d.span[p2]) THEN p1 ELSE p2
DeletePipe(d, p1, p2) == IF KeepFirst(d.span[p1], d.span[p2]) THEN p2 ELSE p1

\* Faulty variant: the backup path forgets `delete_pipe = None`.
TrimWithPlanBackupDeletes(d, keep_pipe, delete_pipe, min_distance, plan, f) ==
    IF TooFarToTrim(min_distance)
    THEN [ok |-> FALSE, path |-> "gate", d |-> d, conns |-> <<>>, ops |-> {}]
    ELSE IF SpanFault \notin f
    THEN TrimMainPath(SetCurve(d, keep_pipe, plan.continuous_curve),
                      keep_pipe, delete_pipe, f)
    ELSE IF BackupFault \notin f
    THEN [ok |-> TRUE, path |-> "backup",
          d |-> Delete(SetCurve(d, keep_pipe, plan.backup_curve), delete_pipe),
          conns |-> <<>>, ops |-> {SpanFault, BackupFault}]
    ELSE [ok |-> FALSE, path |-> "failed", d |-> d, conns |-> <<>>,
          ops |-> {SpanFault, BackupFault}]

\* Faulty variant: the other pipe is deleted although both curve updates
\* were rejected.
TrimWithPlanFailedDeletes(d, keep_pipe, delete_pipe, min_distance, plan, f) ==
    IF TooFarToTrim(min_distance)
    THEN [ok |-> FALSE, path |-> "gate", d |-> d, conns |-> <<>>, ops |-> {}]
    ELSE IF SpanFault \notin f
    THEN TrimMainPath(SetCurve(d, keep_pipe, plan.continuous_curve),
                      keep_pipe, delete_pipe, f)
    ELSE IF BackupFault \notin f
    THEN [ok |-> TRUE, path |-> "backup",
          d |-> SetCurve(d, keep_pipe, plan.backup_curve),
          conns |-> <<>>, ops |-> {SpanFault, BackupFault}]
    ELSE [ok |-> FALSE, path |-> "failed", d |-> Delete(d, delete_pipe),
          conns |-> <<>>, ops |-> {SpanFault, BackupFault}]

TrimWithPlan(d, keep_pipe, delete_pipe, min_distance, plan, f) ==
    IF TooFarToTrim(min_distance)
    THEN [ok |-> FALSE, path |-> "gate", d |-> d, conns |-> <<>>, ops |-> {}]
    ELSE IF SpanFault \notin f
    THEN TrimMainPath(SetCurve(d, keep_pipe, plan.continuous_curve),
                      keep_pipe, delete_pipe, f)
    ELSE IF BackupFault \notin f
    THEN [ok |-> TRUE, path |-> "backup",
          d |-> SetCurve(d, keep_pipe, plan.backup_curve),
          conns |-> <<>>, ops |-> {SpanFault, BackupFault}]
    ELSE [ok |-> FALSE, path |-> "failed", d |-> d, conns |-> <<>>,
          ops |-> {SpanFault, BackupFault}]

TrimWithKeeper(d, keep_pipe, delete_pipe, min_distance, f) ==
    TrimWithPlan(d, keep_pipe, delete_pipe, min_distance,
                 TrimPlan(d.span[keep_pipe], d.span[delete_pipe]), f)

true_trim_pipes(d, p1, p2, f) ==
    TrimWithKeeper(d, KeepPipe(d, p1, p2), DeletePipe(d, p1, p2),
                   MinDistance(d.span[p1], d.span[p2]), f)

\* ------------------------------------------------ method 2: EXTEND BOTH
ExtendBothGate == 5 * U
TooFarToExtend(min_distance) == min_distance > ExtendBothGate

\* Faulty variant: the endpoint away from the other pipe is the one moved.
ExtendedCurveWrongEnd(curve, side, midpoint) ==
    IF side = 1 THEN CreateBound(curve[1], midpoint)
    ELSE CreateBound(midpoint, curve[2])
\* The curve of a pipe with the endpoint of index `side` moved to midpoint.
ExtendedCurve(curve, side, midpoint) ==
    IF side = 1 THEN CreateBound(midpoint, curve[2])
    ELSE CreateBound(curve[1], midpoint)

extend_both_pipes_to_connect(d, p1, p2, f) ==
    LET curve1 == d.span[p1]
        curve2 == d.span[p2]
        k == NearestPair(curve1, curve2)
        min_distance == PairDistance(curve1, curve2, k)
        midpoint == Midpoint(curve1[Pairing[k][1]], curve2[Pairing[k][2]])
        d1 == SetCurve(d, p1, ExtendedCurve(curve1, Pairing[k][1], midpoint))
        d2 == SetCurve(d1, p2, ExtendedCurve(curve2, Pairing[k][2], midpoint))
    IN  IF TooFarToExtend(min_distance)
        THEN [ok |-> FALSE, d |-> d, ops |-> {}]
        ELSE IF <<"eb_span", 1>> \in f
        THEN [ok |-> FALSE, d |-> d, ops |-> {<<"eb_span", 1>>}]
        ELSE IF <<"eb_span", 2>> \in f
        THEN [ok |-> FALSE, d |-> d1, ops |-> Calls("eb_span", 2)]
        ELSE [ok |-> TRUE, d |-> d2, ops |-> Calls("eb_span", 2)]

\* ------------------------------------------------------ method 3: UNION
\* ElementTransformUtils.CopyElements: a copy of each pipe, same curve, no
\* links, under the next free ids.
CopyElements(d, ids) ==
    [d EXCEPT !.alive = @ \cup {NewIds[d.created + k] : k \in 1..Len(ids)},
              !.span = [p \in Pipes |->
                          IF \E k \in 1..Len(ids) : p = NewIds[d.created + k]
                          THEN d.span[ids[CHOOSE k \in 1..Len(ids) :
                                              p = NewIds[d.created + k]]]
                          ELSE @[p]],
              !.created = @ + Len(ids)]

\* `copied`: whether the host call returns a non-empty result.
UnionPipes(d, p1, p2, copied) ==
    IF copied THEN [ok |-> TRUE, d |-> CopyElements(d, <<p1, p2>>)]
    ELSE [ok |-> FALSE, d |-> d]

\* -------------------------------------------------- method 4: CONNECTOR
ConnectorGate == 2 * U

\* The pairs (c1, c2) the loops reach ConnectTo with, in loop order.
ConnectorCandidates(d, p1, p2) ==
    LET connectors1 == get_pipe_connections(d, p1)
        connectors2 == get_pipe_connections(d, p2)
    IN  Flatten([a \in 1..Len(connectors1) |->
          Flatten([b \in 1..Len(connectors2) |->
            IF /\ ~IsConnected(d, connectors1[a])
               /\ ~IsConnected(d, connectors2[b])
               /\ DistanceTo(Origin(d, connectors1[a]),
                             Origin(d, connectors2[b])) < ConnectorGate
            THEN << <<connectors1[a], connectors2[b]>> >>
            ELSE <<>>])])

\* Faulty variant: the first rejected ConnectTo ends the method.
ConnectorGivesUp(d, p1, p2, f) ==
    LET cands == ConnectorCandidates(d, p1, p2)
    IN  IF cands = <<>> \/ <<"cn_connect", 1>> \in f
        THEN [ok |-> FALSE, d |-> d,
              ops |-> Calls("cn_connect", Min2(1, Len(cands)))]
        ELSE [ok |-> TRUE, d |-> ConnectTo(d, cands[1][1], cands[1][2]),
              ops |-> Calls("cn_connect", 1)]
\* ConnectTo on candidate k throws when <<"cn_connect", k>> is in f; the
\* first call that does not throw ends the method.
ConnectorConnection(d, p1, p2, f) ==
    LET cands == ConnectorCandidates(d, p1, p2)
        good == {k \in 1..Len(cands) : <<"cn_connect", k>> \notin f}
    IN  IF good = {}
        THEN [ok |-> FALSE, d |-> d, ops |-> Calls("cn_connect", Len(cands))]
        ELSE LET k == CHOOSE g \in good : \A h \in good : g <= h
             IN  [ok |-> TRUE, d |-> ConnectTo(d, cands[k][1], cands[k][2]),
                  ops |-> Calls("cn_connect", k)]

\* ----------------------------------------------------- method 5: EXTEND
ExtendGate == 5 * U
CloseEnoughToExtend(min_dist) == min_dist < ExtendGate

ExtendPipes(d, p1, p2, f) ==
    LET curve1 == d.span[p1]
        curve2 == d.span[p2]
        k == BestConfig(curve1, curve2)
        min_dist == PairDistance(curve1, curve2, k)
        midpoint == Midpoint(curve1[Pairing[k][1]], curve2[Pairing[k][2]])
        d1 == SetCurve(d, p1, ExtendedCurve(curve1, Pairing[k][1], midpoint))
        d2 == SetCurve(d1, p2, ExtendedCurve(curve2, Pairing[k][2], midpoint))
    IN  IF ~CloseEnoughToExtend(min_dist)
        THEN [ok |-> FALSE, d |-> d, ops |-> {}]
        ELSE IF <<"ex_span", 1>> \in f
        THEN [ok |-> FALSE, d |-> d, ops |-> {<<"ex_span", 1>>}]
        ELSE IF <<"ex_span", 2>> \in f
        THEN [ok |-> FALSE, d |-> d1, ops |-> Calls("ex_span", 2)]
        ELSE [ok |-> TRUE, d |-> d2, ops |-> Calls("ex_span", 2)]

\* ---------------------------------------------------- method 6: SEGMENT
SegmentGate == 3 * U
\* Faulty variant: a gap of exactly the gate is bridged too.
CloseEnoughForSegmentLoose(min_dist) == min_dist <= SegmentGate
CloseEnoughForSegment(min_dist) == min_dist < SegmentGate

\* Pipe.Create: a new pipe with the given curve, linked to nothing.
PipeCreate(d, segment_curve) ==
    [d EXCEPT !.alive = @ \cup {NewIds[d.created + 1]},
              !.span[NewIds[d.created + 1]] = segment_curve,
              !.created = @ + 1]

\* `created`: whether the host call returns a pipe.
CreateSegment(d, p1, p2, created) ==
    LET curve1 == d.span[p1]
        curve2 == d.span[p2]
        k == BestConfig(curve1, curve2)
        min_dist == PairDistance(curve1, curve2, k)
        segment_curve == CreateBound(curve1[Pairing[k][1]], curve2[Pairing[k][2]])
    IN  IF CloseEnoughForSegment(min_dist) /\ created
        THEN [ok |-> TRUE, d |-> PipeCreate(d, segment_curve)]
        ELSE [ok |-> FALSE, d |-> d]

\* ------------------------------------------- connect_pipes_comprehensive
Priority == <<"TRUE_TRIM", "EXTEND_BOTH", "UNION", "CONNECTOR", "EXTEND", "SEGMENT">>
Methods == Range(Priority)
PriorityOf(m) == CHOOSE k \in 1..Len(Priority) : Priority[k] = m

\* Faulty variant: UNION tried before EXTEND BOTH, the order of the file's header.
NextMethodUnionFirst(m) ==
    IF m = "TRUE_TRIM" THEN "UNION"
    ELSE IF m = "UNION" THEN "EXTEND_BOTH"
    ELSE IF m = "EXTEND_BOTH" THEN "CONNECTOR"
    ELSE IF m = "CONNECTOR" THEN "EXTEND"
    ELSE IF m = "EXTEND" THEN "SEGMENT"
    ELSE "record"

\* Where control goes when method m has reported failure.
NextMethod(m) ==
    IF PriorityOf(m) < Len(Priority) THEN Priority[PriorityOf(m) + 1]
    ELSE "record"

\* ------------------------------------ main: disconnecting the coupling
CouplingRefs(d, coupling) ==
    LET cs == Connectors(d, coupling)
    IN  Flatten([k \in 1..Len(cs) |->
                   IF IsConnected(d, cs[k])
                   THEN LET refs == RefsNotOwnedBy(AllRefs(d, cs[k]), coupling)
                        IN  [j \in 1..Len(refs) |-> <<cs[k], refs[j]>>]
                   ELSE <<>>])

PipeRefsToCoupling(d, coupling, pipes) ==
    Flatten([n \in 1..Len(pipes) |->
      LET cs == get_pipe_connections(d, pipes[n])
      IN  Flatten([k \in 1..Len(cs) |->
                     IF IsConnected(d, cs[k])
                     THEN LET refs == RefsOwnedBy(AllRefs(d, cs[k]), coupling)
                          IN  [j \in 1..Len(refs) |-> <<cs[k], refs[j]>>]
                     ELSE <<>>])])

\* Faulty variant: method 2 runs whatever method 1 did.
SecondMethodAlways(disconnect_success) == TRUE
\* Method 2 runs only when no call of method 1 succeeded.
SecondMethodNeeded(disconnect_success) == ~disconnect_success

DisconnectCoupling(d, coupling, p1, p2, f) ==
    LET pairs1 == CouplingRefs(d, coupling)
        success1 == \E k \in 1..Len(pairs1) : <<"dc1", k>> \notin f
        d1 == DisconnectAll(d, pairs1, "dc1", f)
        pairs2 == PipeRefsToCoupling(d1, coupling, <<p1, p2>>)
        second == SecondMethodNeeded(success1)
    IN  [d |-> IF second THEN DisconnectAll(d1, pairs2, "dc2", f) ELSE d1,
         disconnect_success |->
             success1 \/ (second /\ \E k \in 1..Len(pairs2) : <<"dc2", k>> \notin f),
         second |-> second,
         ops |-> Calls("dc1", Len(pairs1))
                 \cup (IF second THEN Calls("dc2", Len(pairs2)) ELSE {})]

\* ----------------------------------------- main: deleting the coupling
FarAway == 1000 * U
MoveElement(d, coupling) == [d EXCEPT !.jloc[coupling] = @ + FarAway]

Delete1 == <<"del", 1>>
Delete2 == <<"del", 2>>
Move3   == <<"move", 3>>
Delete3 == <<"del", 3>>

\* Faulty variant: method 3 sets delete_success before its doc.Delete.
DeleteMarkedEarly(d, coupling, f) ==
    IF Delete1 \notin f
    THEN [delete_success |-> TRUE, d |-> Delete(d, coupling), ops |-> {Delete1}]
    ELSE IF Delete2 \notin f
    THEN [delete_success |-> TRUE, d |-> Delete(d, coupling),
          ops |-> {Delete1, Delete2}]
    ELSE IF Move3 \in f
    THEN [delete_success |-> FALSE, d |-> d, ops |-> {Delete1, Delete2, Move3}]
    ELSE IF Delete3 \in f
    THEN [delete_success |-> TRUE, d |-> MoveElement(d, coupling),
          ops |-> {Delete1, Delete2, Move3, Delete3}]
    ELSE [delete_success |-> TRUE, d |-> Delete(MoveElement(d, coupling), coupling),
          ops |-> {Delete1, Delete2, Move3, Delete3}]
DeleteCoupling(d, coupling, f) ==
    IF Delete1 \notin f
    THEN [delete_success |-> TRUE, d |-> Delete(d, coupling), ops |-> {Delete1}]
    ELSE IF Delete2 \notin f
    THEN [delete_success |-> TRUE, d |-> Delete(d, coupling),
          ops |-> {Delete1, Delete2}]
    ELSE IF Move3 \in f
    THEN [delete_success |-> FALSE, d |-> d, ops |-> {Delete1, Delete2, Move3}]
    ELSE IF Delete3 \in f
    THEN [delete_success |-> FALSE, d |-> MoveElement(d, coupling),
          ops |-> {Delete1, Delete2, Move3, Delete3}]
    ELSE [delete_success |-> TRUE, d |-> Delete(MoveElement(d, coupling), coupling),
          ops |-> {Delete1, Delete2, Move3, Delete3}]

\* Faulty variant: two or more pipes accepted.
AtLeastTwo(pipes) == Len(pipes) >= 2

\* The guard of `if len(connected_pipes) == 2`.
ExactlyTwo(pipes) == Len(pipes) = 2

\* Faulty variant: the `continue` after a failed deletion left out.
NeverSkipReconnect(delete_success) == FALSE

\* The guard of `if not delete_success: ... continue`.
SkipReconnect(delete_success) == ~delete_success


\* ================================================================ state
VARIABLES
    doc,                \* the host document
    selected_elements,  \* the couplings picked by the user, in order
    i,                  \* index of the coupling being processed
    pc,                 \* position in main's loop body
    connected_pipes,    \* result of find_connected_pipes for coupling i
    pipe1, pipe2,
    result,             \* what connect_pipes_comprehensive returned
    success_count, error_count,
    committed,          \* trans.Commit() has run
    started,            \* the document when trans.Start() ran
    faults,             \* host calls that have thrown so far
    tried,              \* <<method, reported success>> for coupling i, in order
    pre,                \* the document when coupling i's iteration began
    tt,                 \* what the last run of true_trim_pipes did (before:
                        \* the document when it began; at_delete: the
                        \* document when it called doc.Delete on a pipe)
    last                \* how the last finished iteration ended

vars == <<doc, selected_elements, i, pc, connected_pipes, pipe1, pipe2, result,
          success_count, error_count, committed, started, faults, tried, pre,
          tt, last>>

\* ------------------------------------------------------------ scenarios
P(x) == x * U
Conn(e, k) == <<e, k>>

NoSpan == <<0, 0>>
Spans(a, b, c) ==
    [p \in Pipes |-> IF p = "A" THEN a ELSE IF p = "B" THEN b
                     ELSE IF p = "C" THEN c ELSE NoSpan]
JLoc(j1, j2) == [j \in Junctions |-> IF j = "J1" THEN j1 ELSE j2]

\* Curves of pipe A and pipe B, in feet: touching, apart by 1, 2, 3, 5, 6,
\* 10 and 15 feet, overlapping, either orientation, either one the longer.
CurvesA == {<<0, 5>>, <<5, 0>>}
CurvesB == {<<5, 10>>, <<6, 9>>, <<6, 14>>, <<9, 6>>, <<14, 6>>, <<7, 9>>,
            <<8, 12>>, <<10, 14>>, <<11, 14>>, <<15, 18>>, <<20, 25>>,
            <<2, 6>>, <<1, 6>>, <<6, 1>>}
Feet(c) == <<P(c[1]), P(c[2])>>

\* External links of the two pipes besides the coupling's own.
ExternalLinks ==
    { {},
      {Link(Conn("B", 1), Conn("X1", 0))},
      {Link(Conn("B", 1), Conn("X1", 0)), Link(Conn("B", 1), Conn("X2", 0))},
      {Link(Conn("B", 0), Conn("X1", 0))},
      {Link(Conn("A", 0), Conn("X1", 0)), Link(Conn("B", 1), Conn("X2", 0))} }

J1toAB == {Link(Conn("J1", 0), Conn("A", 1)), Link(Conn("J1", 1), Conn("B", 0))}
J2toBC == {Link(Conn("J2", 0), Conn("B", 1)), Link(Conn("J2", 1), Conn("C", 0))}

\* One coupling between pipes A and B.
PairScenarios ==
    {[alive |-> {"A", "B", "J1", "X1", "X2"},
      span |-> Spans(Feet(a), Feet(b), NoSpan),
      links |-> J1toAB \cup x,
      jloc |-> JLoc(P(5), 0),
      batch |-> <<"J1">>] : a \in CurvesA, b \in CurvesB, x \in ExternalLinks}

\* Couplings with zero, one, two or three pipes found, by connectors or by
\* proximity.
CountLinks ==
    { {},
      {Link(Conn("J1", 0), Conn("A", 1))},
      {Link(Conn("J1", 0), Conn("A", 1)), Link(Conn("J1", 1), Conn("A", 0))},
      {Link(Conn("J1", 0), Conn("X1", 0))},
      J1toAB \cup {Link(Conn("J1", 0), Conn("C", 0))} }
CountScenarios ==
    {[alive |-> {"A", "B", "C", "J1", "J2", "X1", "X2"},
      span |-> Spans(Feet(<<0, 5>>), Feet(<<5, 10>>), Feet(c)),
      links |-> l,
      jloc |-> JLoc(P(j), P(0)),
      batch |-> b] :
        c \in {<<5, 9>>, <<30, 34>>}, l \in CountLinks, j \in {5, 20},
        b \in {<<"J1">>, <<"J1", "J2">>}}

\* Three pipes in a row, A - J1 - B - J2 - C.
ChainScenarios ==
    {[alive |-> {"A", "B", "C", "J1", "J2", "X1", "X2"},
      span |-> Spans(Feet(<<0, 5>>), Feet(b), Feet(c)),
      links |-> J1toAB \cup J2toBC \cup x,
      jloc |-> JLoc(P(5), P(b[2])),
      batch |-> s] :
        b \in {<<5, 8>>, <<5, 12>>, <<6, 9>>},
        c \in {<<12, 16>>, <<9, 12>>},
        x \in {{}, {Link(Conn("C", 1), Conn("X1", 0))}},
        s \in {<<"J1", "J2">>, <<"J2", "J1">>}}

\* Two short pipes, 1/2 ft and 7/16 ft: merged they are less than 1 ft long.
ShortScenarios ==
    {[alive |-> {"A", "B", "J1", "X1", "X2"},
      span |-> Spans(<<0, U \div 2>>, <<U \div 2, U - 1>>, NoSpan),
      links |-> J1toAB \cup x,
      jloc |-> JLoc(U \div 2, 0),
      batch |-> <<"J1">>] : x \in ExternalLinks}

Scenarios ==
    PairScenarios \cup CountScenarios \cup ChainScenarios \cup ShortScenarios

Idle(d) ==
    [path |-> "idle", keep_pipe |-> "A", delete_pipe |-> "A",
     main_curve |-> NoSpan, extend_curve |-> NoSpan, conns |-> <<>>,
     before |-> d, at_delete |-> d]

Init ==
    \E s \in Scenarios :
        /\ doc = [alive |-> s.alive, span |-> s.span, links |-> s.links,
                  jloc |-> s.jloc, created |-> 0]
        /\ selected_elements = s.batch
        /\ i = 1
        /\ pc = "find"
        /\ connected_pipes = <<>>
        /\ pipe1 = "A"
        /\ pipe2 = "A"
        /\ result = "NONE"
        /\ success_count = 0
        /\ error_count = 0
        /\ committed = FALSE
        /\ started = doc
        /\ faults = 0
        /\ tried = <<>>
        /\ pre = doc
        /\ tt = Idle(doc)
        /\ last = "NONE"

\* -------------------------------------------------------------- actions
coupling == selected_elements[i]

\* Sets of throwing host calls the remaining budget allows, among `calls`.
FaultSets(calls) == SubsetsUpTo(calls, MaxFaults - faults)

\* End of an iteration of `for i, coupling in enumerate(...)`.
NextCoupling ==
    IF i < Len(selected_elements)
    THEN i' = i + 1 /\ pc' = "find"
    ELSE i' = i /\ pc' = "commit"

\* Faulty variant: discovery detaches the coupling's connectors as it walks
\* them.
FindPipesDetaching ==
    /\ pc = "find"
    /\ doc' = [doc EXCEPT !.links = {l \in @ : \A c \in l : Owner(c) # coupling}]
    /\ connected_pipes' = find_connected_pipes(doc, coupling)
    /\ pre' = doc
    /\ tried' = <<>>
    /\ result' = "NONE"
    /\ tt' = Idle(doc)
    /\ IF ExactlyTwo(connected_pipes')
       THEN /\ pipe1' = connected_pipes'[1]
            /\ pipe2' = connected_pipes'[2]
            /\ pc' = "disconnect"
            /\ UNCHANGED <<i, error_count, last>>
       ELSE /\ error_count' = error_count + 1
            /\ last' = "WRONG_COUNT"
            /\ NextCoupling
            /\ UNCHANGED <<pipe1, pipe2>>
    /\ UNCHANGED <<selected_elements, success_count, committed, started, faults>>

\* lines 645-653, 792-798
FindPipes ==
    /\ pc = "find"
    /\ LET found == find_connected_pipes(doc, coupling)
       IN  /\ connected_pipes' = found
           /\ pre' = doc
           /\ tried' = <<>>
           /\ result' = "NONE"
           /\ tt' = Idle(doc)
           /\ IF ExactlyTwo(found)
              THEN /\ pipe1' = found[1]
                   /\ pipe2' = found[2]
                   /\ pc' = "disconnect"
                   /\ UNCHANGED <<i, error_count, last>>
              ELSE /\ error_count' = error_count + 1
                   /\ last' = "WRONG_COUNT"
                   /\ NextCoupling
                   /\ UNCHANGED <<pipe1, pipe2>>
    /\ UNCHANGED <<doc, selected_elements, success_count, committed, started, faults>>

\* lines 656-713
Disconnect ==
    /\ pc = "disconnect"
    /\ \E f \in FaultSets(Calls("dc1", 3) \cup Calls("dc2", 3)) :
         LET r == DisconnectCoupling(doc, coupling, pipe1, pipe2, f)
         IN  /\ f \subseteq r.ops
             /\ doc' = r.d
             /\ faults' = faults + Cardinality(f)
    /\ pc' = "delete"
    /\ UNCHANGED <<selected_elements, i, connected_pipes, pipe1, pipe2, result,
                   success_count, error_count, committed, started, tried, pre, tt, last>>

\* lines 716-756
DeleteStep ==
    /\ pc = "delete"
    /\ \E f \in FaultSets({Delete1, Delete2, Move3, Delete3}) :
         LET r == DeleteCoupling(doc, coupling, f)
         IN  /\ f \subseteq r.ops
             /\ doc' = r.d
             /\ faults' = faults + Cardinality(f)
             /\ IF SkipReconnect(r.delete_success)
                THEN /\ error_count' = error_count + 1
                     /\ last' = "UNDELETABLE"
                     /\ NextCoupling
                ELSE /\ pc' = Priority[1]
                     /\ UNCHANGED <<i, error_count, last>>
    /\ UNCHANGED <<selected_elements, connected_pipes, pipe1, pipe2, result,
                   success_count, committed, started, tried, pre, tt>>

\* A method has run: on success connect_pipes_comprehensive returns its tag,
\* on failure the next method runs, and after the last one it returns False.
\* Faulty variant: a method that fails lets its error out of the chain.
ReportOrEscape(m, ok) ==
    /\ tried' = Append(tried, <<m, ok>>)
    /\ IF ok THEN result' = m /\ pc' = "record"
       ELSE result' = result /\ pc' = "aborted"
Report(m, ok) ==
    /\ tried' = Append(tried, <<m, ok>>)
    /\ IF ok THEN result' = m /\ pc' = "record"
       ELSE /\ pc' = NextMethod(m)
            /\ result' = IF NextMethod(m) = "record" THEN "FAILURE" ELSE result

TrimCalls ==
    {SpanFault, BackupFault, DeleteFault}
        \cup Calls("tt_connect", 3) \cup Calls("tt_disc", 3)

TrimOutcome(r, f) ==
    /\ f \subseteq r.ops
    /\ doc' = r.d
    /\ faults' = faults + Cardinality(f)
    /\ tt' = [path |-> r.path,
              keep_pipe |-> KeepPipe(doc, pipe1, pipe2),
              delete_pipe |-> DeletePipe(doc, pipe1, pipe2),
              main_curve |-> doc.span[KeepPipe(doc, pipe1, pipe2)],
              extend_curve |-> doc.span[DeletePipe(doc, pipe1, pipe2)],
              conns |-> r.conns,
              before |-> doc,
              at_delete |-> IF r.path = "main" THEN r.at_delete ELSE doc]
    /\ Report("TRUE_TRIM", r.ok)

\* lines 437-440
TrueTrim ==
    /\ pc = "TRUE_TRIM"
    /\ \E f \in FaultSets(TrimCalls) :
         TrimOutcome(true_trim_pipes(doc, pipe1, pipe2, f), f)
    /\ UNCHANGED <<selected_elements, i, connected_pipes, pipe1, pipe2,
                   success_count, error_count, committed, started, pre, last>>

\* lines 442-445
ExtendBoth ==
    /\ pc = "EXTEND_BOTH"
    /\ \E f \in FaultSets(Calls("eb_span", 2)) :
         LET r == extend_both_pipes_to_connect(doc, pipe1, pipe2, f)
         IN  /\ f \subseteq r.ops
             /\ doc' = r.d
             /\ faults' = faults + Cardinality(f)
             /\ Report("EXTEND_BOTH", r.ok)
    /\ UNCHANGED <<selected_elements, i, connected_pipes, pipe1, pipe2,
                   success_count, error_count, committed, started, pre, tt, last>>

\* lines 447-457
Union ==
    /\ pc = "UNION"
    /\ \E copied \in BOOLEAN :
         LET r == UnionPipes(doc, pipe1, pipe2, copied)
         IN  /\ copied => doc.created + 2 <= Len(NewIds)
             /\ doc' = r.d
             /\ Report("UNION", r.ok)
    /\ UNCHANGED <<selected_elements, i, connected_pipes, pipe1, pipe2,
                   success_count, error_count, committed, started, faults, pre, tt, last>>

\* lines 459-477
Connector ==
    /\ pc = "CONNECTOR"
    /\ \E f \in FaultSets(Calls("cn_connect", 4)) :
         LET r == ConnectorConnection(doc, pipe1, pipe2, f)
         IN  /\ f \subseteq r.ops
             /\ doc' = r.d
             /\ faults' = faults + Cardinality(f)
             /\ Report("CONNECTOR", r.ok)
    /\ UNCHANGED <<selected_elements, i, connected_pipes, pipe1, pipe2,
                   success_count, error_count, committed, started, pre, tt, last>>

\* lines 479-531
Extend ==
    /\ pc = "EXTEND"
    /\ \E f \in FaultSets(Calls("ex_span", 2)) :
         LET r == ExtendPipes(doc, pipe1, pipe2, f)
         IN  /\ f \subseteq r.ops
             /\ doc' = r.d
             /\ faults' = faults + Cardinality(f)
             /\ Report("EXTEND", r.ok)
    /\ UNCHANGED <<selected_elements, i, connected_pipes, pipe1, pipe2,
                   success_count, error_count, committed, started, pre, tt, last>>

\* lines 533-577
Segment ==
    /\ pc = "SEGMENT"
    /\ \E created \in BOOLEAN :
         LET r == CreateSegment(doc, pipe1, pipe2, created)
         IN  /\ created => doc.created + 1 <= Len(NewIds)
             /\ doc' = r.d
             /\ Report("SEGMENT", r.ok)
    /\ UNCHANGED <<selected_elements, i, connected_pipes, pipe1, pipe2,
                   success_count, error_count, committed, started, faults, pre, tt, last>>

\* The if/elif chain of lines 761-790: each of the six tags counts as a
\* success, anything else (False) as a failure.
\* Faulty variant: whatever the chain returned counts as a success.
AnyResultCounts(r) == TRUE
CountsAsSuccess(r) == r \in Methods
total_count == Len(selected_elements)

\* lines 759-790
Record ==
    /\ pc = "record"
    /\ IF CountsAsSuccess(result)
       THEN success_count' = success_count + 1 /\ UNCHANGED error_count
       ELSE error_count' = error_count + 1 /\ UNCHANGED success_count
    /\ last' = result
    /\ NextCoupling
    /\ UNCHANGED <<doc, selected_elements, connected_pipes, pipe1, pipe2, result,
                   committed, started, faults, tried, pre, tt>>

\* An error raised outside every try of the loop body (here the read of
\* coupling.Id at the head of an iteration) leaves the `with` block, which
\* disposes of the started transaction and so rolls the document back, and
\* is caught by the except of main: trans.Commit() is not reached.
EscapeFault == <<"escape", 0>>
\* Faulty variant: the commit runs although the error escaped.
AfterEscapeCommits == "commit"
AfterEscape == "aborted"
RollBack == started

\* lines 632, 641, 823-825
TopLevelError ==
    /\ pc = "find"
    /\ {EscapeFault} \in FaultSets({EscapeFault})
    /\ faults' = faults + 1
    /\ doc' = RollBack
    /\ pc' = AfterEscape
    /\ UNCHANGED <<selected_elements, i, connected_pipes, pipe1, pipe2, result,
                   success_count, error_count, committed, started, tried, pre,
                   tt, last>>

\* lines 820-821
Commit ==
    /\ pc = "commit"
    /\ committed' = TRUE
    /\ pc' = "done"
    /\ UNCHANGED <<doc, selected_elements, i, connected_pipes, pipe1, pipe2,
                   result, success_count, error_count, started, faults, tried,
                   pre, tt, last>>

Next ==
    \/ FindPipes
    \/ Disconnect
    \/ DeleteStep
    \/ TrueTrim
    \/ ExtendBoth
    \/ Union
    \/ Connector
    \/ Extend
    \/ Segment
    \/ Record
    \/ TopLevelError
    \/ Commit

Spec == Init /\ [][Next]_vars


\* =============================================================== claims
Succeeded == pc = "record" /\ result \in Methods
Reported(m) == pc = "record" /\ result = m

TriedMethods == [k \in 1..Len(tried) |-> tried[k][1]]
Keeper == tt.keep_pipe
Donor == tt.delete_pipe
LinksOf(d, e) == {l \in d.links : \E c \in l : Owner(c) = e}
\* The smallest endpoint gap of the two pipes when TRUE TRIM started.
GapAtTrim == MinDistance(tt.before.span[pipe1], tt.before.span[pipe2])
Lo(curve) == Min2(curve[1], curve[2])
Hi(curve) == Max2(curve[1], curve[2])
\* The coupling of the iteration that has just ended.
Finished == pc \in {"find", "commit", "done"} /\ last # "NONE"
FinishedCoupling ==
    IF pc = "find" THEN selected_elements[i - 1] ELSE selected_elements[i]

\* C1: the methods are attempted in the order TRUE_TRIM, EXTEND_BOTH, UNION,
\* CONNECTOR, EXTEND, SEGMENT; a method is attempted only after every earlier
\* one reported failure; the outcome is the tag of the first method that
\* reported success (FAILURE only after all six failed); and once a method
\* has reported success nothing more is attempted or changed before the
\* outcome is recorded.
C1_Order ==
    /\ TriedMethods = SubSeq(Priority, 1, Len(tried))
    /\ \A k \in 1..(Len(tried) - 1) : ~tried[k][2]
    /\ pc \in Methods =>
          /\ Len(tried) = PriorityOf(pc) - 1
          /\ \A k \in 1..Len(tried) : ~tried[k][2]
    /\ Succeeded => tried[Len(tried)] = <<result, TRUE>>
    /\ Reported("FAILURE") =>
          /\ Len(tried) = Len(Priority)
          /\ \A k \in 1..Len(tried) : ~tried[k][2]
C2_TrimMergesIntoOne ==
    Reported("TRUE_TRIM") =>
        /\ Keeper \in doc.alive
        /\ Donor \notin doc.alive
        /\ Lo(doc.span[Keeper]) = Min2(Lo(tt.main_curve), Lo(tt.extend_curve))
        /\ Hi(doc.span[Keeper]) = Max2(Hi(tt.main_curve), Hi(tt.extend_curve))
\* No host call was rejected, pipe A = (0, 5) was kept and pipe B = (6, 1),
\* which runs back along A, was deleted: A is left as the 1 ft curve (5, 6).
C2_ShrunkKeeper ==
    /\ Reported("TRUE_TRIM")
    /\ faults = 0
    /\ tt.main_curve = Feet(<<0, 5>>)
    /\ tt.extend_curve = Feet(<<6, 1>>)
    /\ Donor \notin doc.alive
    /\ doc.span[Keeper] = Feet(<<5, 6>>)

\* C3: whenever TRUE_TRIM is reported, every external connector the other
\* pipe was linked to before the merge is linked to a connector of the kept
\* pipe that lies within 1 ft of the position recorded for it.
ExternalRefs(d, e) == RefsToDisconnect(d, e)
C3_ConnectionsTransferred ==
    Reported("TRUE_TRIM") =>
        \A k \in 1..Len(ExternalRefs(tt.before, Donor)) :
            LET pair == ExternalRefs(tt.before, Donor)[k]
                position == Origin(tt.before, pair[1])
            IN  \E c \in Range(Connectors(doc, Keeper)) :
                    /\ Link(c, pair[2]) \in doc.links
                    /\ DistanceTo(Origin(doc, c), position) < ReconnectTolerance
\* No host call was rejected, the deleted pipe had two externals on its far
\* connector, and only the first of them is linked to the kept pipe.
C3_SecondExternalLost ==
    /\ Reported("TRUE_TRIM")
    /\ faults = 0
    /\ tt.path = "main"
    /\ Donor \notin doc.alive
    /\ Len(ExternalRefs(tt.before, Donor)) = 2
    /\ LinksOf(doc, "X1") # {}
    /\ LinksOf(doc, "X2") = {}

\* C4: whenever TRUE TRIM has set the kept pipe's curve (main path or
\* backup), the direction of the new curve has a non-negative dot product
\* with the kept pipe's original direction.
C4_DirectionPreserved ==
    (Reported("TRUE_TRIM") /\ tt.path \in {"main", "backup"}) =>
        DotProduct(Direction(tt.main_curve), Direction(doc.span[Keeper])) >= 0
\* The main path ran on a pair for which the unchecked new curve points
\* against the kept pipe.
C4_Witness ==
    /\ Reported("TRUE_TRIM")
    /\ tt.path = "main"
    /\ LET plan == TrimPlan(tt.main_curve, tt.extend_curve)
           raw == IF plan.from_start
                  THEN <<plan.extend_to_point, tt.main_curve[2]>>
                  ELSE <<tt.main_curve[1], plan.extend_to_point>>
       IN  /\ DotProduct(Direction(tt.main_curve), Direction(raw)) < 0
           /\ doc.span[Keeper] = <<raw[2], raw[1]>>

\* C5 (as amended): whenever TRUE TRIM declines at its distance gate
\* (gap > 10 ft) the same gap also exceeds the gate of EXTEND BOTH (5 ft), so
\* EXTEND BOTH declines too and the outcome is never EXTEND_BOTH;
\* EXTEND_BOTH is reported only after TRUE TRIM failed on rejected host calls.
C5_GateImpliesExtendBothDeclines ==
    /\ (tt.path = "gate" /\ Len(tried) >= 2) =>
          /\ tried[2] = <<"EXTEND_BOTH", FALSE>>
          /\ TooFarToExtend(GapAtTrim)
          /\ result # "EXTEND_BOTH"
    /\ Reported("EXTEND_BOTH") => tt.path = "failed"
C5_Witness ==
    /\ tt.path = "gate"
    /\ Len(tried) >= 2
    /\ tried[2] = <<"EXTEND_BOTH", FALSE>>
\* C5 as stated: some gap fails the gate of TRUE TRIM and passes the gate of
\* EXTEND BOTH, and for such a gap the outcome is EXTEND_BOTH.
GapRange == 0..(2 * TrimGate)
C5_MonotonicFallback ==
    /\ \E g \in GapRange : TooFarToTrim(g) /\ ~TooFarToExtend(g)
    /\ (pc = "record" /\ tt.path = "gate" /\ ~TooFarToExtend(GapAtTrim)) =>
          result = "EXTEND_BOTH"

\* C6: when the smallest endpoint gap exceeds every gate (more than 10 ft),
\* all six methods report failure and the outcome is FAILURE.
C6_FarApartFails ==
    (pc = "record" /\ GapAtTrim > TrimGate) =>
        /\ result = "FAILURE"
        /\ \A k \in 1..Len(tried) : ~tried[k][2]
\* The pipes are 15 ft apart and the outcome is UNION, with two copies made.
C6_UnionAtFifteenFeet ==
    /\ Reported("UNION")
    /\ GapAtTrim = P(15)
    /\ doc.created = pre.created + 2

\* C7: a coupling for which discovery returns a number of pipes other than
\* two adds one to the failures, changes nothing in the document, does not
\* start the reconnection chain, and the loop moves on to the next coupling.
C7_WrongCountSkipped ==
    [][(/\ pc = "find"
        /\ connected_pipes' = find_connected_pipes(doc, coupling)
        /\ faults' = faults
        /\ Len(find_connected_pipes(doc, coupling)) # 2) =>
          /\ doc' = doc
          /\ error_count' = error_count + 1
          /\ success_count' = success_count
          /\ tried' = <<>>
          /\ IF i < Len(selected_elements)
             THEN pc' = "find" /\ i' = i + 1
             ELSE pc' = "commit"]_vars
\* A coupling with three pipes has been skipped.
C7_Witness ==
    /\ last = "WRONG_COUNT"
    /\ Len(connected_pipes) = 3
    /\ error_count = 1

\* C8 (as amended): when the host rejects TRUE TRIM's curve update and
\* accepts the backup update, the other pipe is not deleted, its links and
\* curve are untouched and the outcome is TRUE_TRIM; when the backup update
\* is rejected too, TRUE TRIM reports failure having changed nothing, and
\* the chain goes on with EXTEND BOTH.
C8_BackupKeepsDonor ==
    /\ (pc = "record" /\ tt.path = "backup") =>
          /\ result = "TRUE_TRIM"
          /\ Donor \in doc.alive
          /\ LinksOf(doc, Donor) = LinksOf(tt.before, Donor)
          /\ doc.span[Donor] = tt.before.span[Donor]
    /\ (tt.path = "failed" /\ Len(tried) = 1) =>
          /\ pc = "EXTEND_BOTH"
          /\ doc = tt.before
C8_Witness ==
    /\ pc = "record"
    /\ tt.path = "backup"
    /\ LinksOf(doc, Donor) # {}
\* C8 as stated: whenever the curve update of TRUE TRIM was rejected, the
\* other pipe is alive with its links untouched and the outcome is not
\* FAILURE.
C8_RejectedUpdateStillSucceeds ==
    (pc = "record" /\ tt.path \in {"backup", "failed"}) =>
        /\ result # "FAILURE"
        /\ Donor \in doc.alive
        /\ LinksOf(doc, Donor) = LinksOf(tt.before, Donor)

\* C9: the reconnection chain runs for a coupling only after the coupling
\* has been deleted; when every deletion method fails the coupling counts as
\* one failure, no method is attempted and no pipe's curve is changed.
C9_ChainOnlyAfterDelete ==
    (pc \in Methods \/ pc = "record") =>
        coupling \notin doc.alive /\ coupling \in pre.alive
C9_ReconnectOnlyAfterDelete ==
    /\ []C9_ChainOnlyAfterDelete
    /\ [][(pc = "delete" /\ coupling \in doc'.alive) =>
            /\ error_count' = error_count + 1
            /\ success_count' = success_count
            /\ last' = "UNDELETABLE"
            /\ pc' \in {"find", "commit"}
            /\ tried' = <<>>
            /\ doc'.span = pre.span]_vars
C9_Witness ==
    /\ Finished
    /\ last = "UNDELETABLE"
    /\ FinishedCoupling \in doc.alive
    /\ error_count = 1
    /\ faults >= 3

\* C10: after each coupling's iteration either the coupling is deleted and
\* its pipes are reconnected with a non-failure outcome, or the document is
\* exactly as it was when the iteration began.
C10_NoPartialState ==
    Finished =>
        \/ FinishedCoupling \notin doc.alive /\ last \in Methods
        \/ doc = pre
\* A coupling counted as failed is deleted, and its two pipes are left with
\* their curves unchanged and no link between them.
C10_DeletedAndUnconnected ==
    /\ Finished
    /\ last = "FAILURE"
    /\ FinishedCoupling \notin doc.alive
    /\ FinishedCoupling \in pre.alive
    /\ doc.span = pre.span
    /\ LinksOf(doc, pipe1) \cap LinksOf(doc, pipe2) = {}

\* C11: trans.Commit() runs only once every selected coupling has been
\* attempted; when an error escapes the loop body the commit never runs, and
\* the document is as it was when the transaction started, so nothing done
\* for earlier couplings of the batch is committed.
Attempted == success_count + error_count
C11_CommitAfterAll ==
    /\ committed => /\ pc = "done"
                    /\ i = Len(selected_elements)
                    /\ Attempted = Len(selected_elements)
    /\ pc = "aborted" => ~committed /\ doc = started
    /\ pc = "commit" => i = Len(selected_elements) /\ last # "NONE"
C11_BatchAtomicity ==
    /\ []C11_CommitAfterAll
    /\ [][pc = "aborted" => pc' = "aborted" /\ ~committed']_vars
    /\ [][committed' /\ ~committed => pc = "commit" /\ doc' = doc]_vars
\* The error escaped at the second coupling, after the first one had been
\* deleted and its pipes reconnected: the document is back to its start.
C11_Witness ==
    /\ pc = "aborted"
    /\ i = 2
    /\ last \in Methods
    /\ selected_elements[1] \in doc.alive
    /\ ~committed

\* C12: once the whole batch has been handled, total_count is the number of
\* selected couplings and success_count + error_count = total_count; every
\* coupling adds one to exactly one of the two counters, exactly once:
\* to success_count exactly when the chain returned one of the six tags, to
\* error_count for a wrong pipe count, an undeletable coupling or FAILURE.
C12_Counted ==
    /\ pc \in {"commit", "done"} =>
          /\ Attempted = total_count
          /\ total_count = Len(selected_elements)
    /\ pc \notin {"commit", "done"} => Attempted = i - 1
C12_CountersAddUp ==
    /\ []C12_Counted
    /\ [][/\ (success_count' # success_count) =>
                (/\ pc = "record" /\ result \in Methods
                 /\ success_count' = success_count + 1
                 /\ error_count' = error_count
                 /\ last' = result)
          /\ (error_count' # error_count) =>
                (/\ error_count' = error_count + 1
                 /\ success_count' = success_count
                 /\ last' \in {"WRONG_COUNT", "UNDELETABLE", "FAILURE"})
          /\ (pc = "record" /\ result \in Methods) =>
                (success_count' = success_count + 1)
          /\ (i' # i \/ (pc' = "commit" /\ pc # "commit")) =>
                (Attempted' = Attempted + 1)]_vars
\* A batch of two couplings has been handled: one success, one failure.
C12_Witness ==
    /\ pc = "done"
    /\ total_count = 2
    /\ success_count = 1
    /\ error_count = 1

\* C13: an error thrown by a host call inside one of the six methods never
\* leaves connect_pipes_comprehensive: the method counts as failed (or as
\* succeeded where the code goes on after the error), the next method is
\* tried, and the chain ends with one of the six tags or with FAILURE.
C13_ChainStep ==
    pc \in Methods =>
        /\ pc' \in {NextMethod(pc), "record"}
        /\ tried' = Append(tried, <<pc, pc' = "record" /\ result' = pc>>)
        /\ pc' = "record" => result' \in {pc, "FAILURE"}
        /\ result' = "FAILURE" => pc = "SEGMENT"
        /\ <<i, success_count, error_count, committed>>' =
               <<i, success_count, error_count, committed>>
C13_ErrorsStayInChain ==
    /\ [](pc = "record" => result \in Methods \cup {"FAILURE"})
    /\ [][C13_ChainStep]_vars
\* EXTEND BOTH passed its gate and failed on a rejected curve update, and
\* the chain has moved on to UNION.
C13_Witness ==
    /\ pc = "UNION"
    /\ tried[2] = <<"EXTEND_BOTH", FALSE>>
    /\ ~TooFarToExtend(GapAtTrim)
    /\ faults > 0

\* A step of the loop in which discovery ran (it raises nothing).
Discovered == pc = "find" /\ faults' = faults

PipesLinkedTo(d, c) ==
    {p \in Pipes \cap d.alive :
        \E l \in d.links : \E x \in l, y \in l : Owner(x) = c /\ Owner(y) = p}
PipesNear(d, c) ==
    {p \in Pipes \cap d.alive :
        LET lo == Lo(d.span[p])
            hi == Hi(d.span[p])
            at == d.jloc[c]
            gap == IF at < lo THEN lo - at ELSE IF at > hi THEN at - hi ELSE 0
        IN  gap < P(1)}
\* C15 (as amended): discovery returns every pipe attached to the coupling,
\* each once, however many there are: the pipes its connectors refer to or,
\* when there are none, the pipes closer than 1 ft to it.  main, not
\* discovery, requires that there be exactly two.
C15_AllDistinctPipes ==
    [][Discovered =>
          LET found == connected_pipes'
              c == selected_elements[i]
          IN  /\ \A j, k \in 1..Len(found) : found[j] = found[k] => j = k
              /\ Range(found) = IF PipesLinkedTo(doc, c) # {}
                                THEN PipesLinkedTo(doc, c)
                                ELSE PipesNear(doc, c)]_vars
\* Three pipes lie within 1 ft of a coupling with no connector linked, and
\* discovery has returned the three.
C15_Witness ==
    /\ Len(connected_pipes) = 3
    /\ LinksOf(pre, "J1") = {}
    /\ i = 1
    /\ pc \in {"find", "commit"}
\* C15 as stated: discovery never returns more than two pipes.
C15_AtMostTwo == Len(connected_pipes) <= 2

\* The endpoint of the other pipe that the kept pipe was to be stretched to
\* (its far endpoint), and the endpoint of the other pipe nearest the kept
\* pipe.
FarEndpoint == TrimPlan(tt.main_curve, tt.extend_curve).extend_to_point
NearestK == NearestPair(tt.main_curve, tt.extend_curve)
Anchor == tt.extend_curve[Pairing[NearestK][2]]

\* C16: TRUE_TRIM is reported only when the kept pipe's curve update to the
\* merged curve succeeded: the kept pipe then ends at the other pipe's far
\* endpoint, and the backup path is not reported as TRUE_TRIM.
C16_TrimOnlyIfMerged ==
    Reported("TRUE_TRIM") =>
        /\ tt.path = "main"
        /\ FarEndpoint \in Range(doc.span[Keeper])
\* The first curve update was rejected and the backup accepted: TRUE_TRIM is
\* reported with both pipes in the document and the kept pipe's curve as it
\* was.
C16_BackupReportedAsTrim ==
    /\ Reported("TRUE_TRIM")
    /\ tt.path = "backup"
    /\ faults = 1
    /\ Donor \in doc.alive
    /\ FarEndpoint \notin Range(doc.span[Keeper])

\* C17: the kept pipe is the longer of the two (pipe1 when the lengths are
\* equal) and the other pipe is the one to delete; when TRUE_TRIM is
\* reported the kept pipe is still in the document, nothing but the other
\* pipe has been deleted and no pipe has been created.
C17_LongerKept ==
    Reported("TRUE_TRIM") =>
        /\ Keeper = IF Length(tt.before.span[pipe1]) >= Length(tt.before.span[pipe2])
                    THEN pipe1 ELSE pipe2
        /\ {Keeper, Donor} = {pipe1, pipe2}
        /\ Keeper # Donor
        /\ Keeper \in doc.alive
        /\ doc.alive \subseteq tt.before.alive
        /\ tt.before.alive \ doc.alive \subseteq {Donor}
        /\ doc.created = tt.before.created
        /\ (tt.path = "main" /\ faults = 0) => Donor \notin doc.alive
        /\ tt.path = "backup" => Donor \in doc.alive
\* The second pipe was the longer one: it was kept and the first deleted.
C17_Witness ==
    /\ Reported("TRUE_TRIM")
    /\ tt.path = "main"
    /\ Length(tt.before.span[pipe2]) > Length(tt.before.span[pipe1])
    /\ Keeper = pipe2
    /\ pipe1 \notin doc.alive
    /\ pipe2 \in doc.alive

\* C18: on the backup path the kept pipe's endpoint nearest the other pipe
\* is moved to the other pipe's nearest endpoint and its other endpoint
\* stays where it was.
C18_BackupClosesGap ==
    (pc = "record" /\ tt.path = "backup") =>
        doc.span[Keeper] = [tt.main_curve EXCEPT ![Pairing[NearestK][1]] = Anchor]
\* The backup path ran on pipes 1 ft apart and the kept pipe's curve is
\* what it was: the gap is still there.
C18_BackupLeavesGap ==
    /\ pc = "record"
    /\ tt.path = "backup"
    /\ GapAtTrim = P(1)
    /\ doc.span[Keeper] = tt.main_curve
    /\ Anchor \notin Range(doc.span[Keeper])

\* C19 (as amended): when TRUE TRIM calls doc.Delete on the other pipe, the
\* links that pipe still has are links it had before, one per DisconnectFrom
\* call the host rejected; with no rejected call it has none.  Once the pipe
\* is deleted no link refers to it, whether it was unlinked or not.
C19_UnlinkedUnlessRejected ==
    (pc = "record" /\ tt.path = "main") =>
        /\ LinksOf(tt.at_delete, Donor) \subseteq LinksOf(tt.before, Donor)
        /\ Cardinality(LinksOf(tt.at_delete, Donor)) <= faults
        /\ faults = 0 => LinksOf(tt.at_delete, Donor) = {}
        /\ Donor \notin doc.alive => LinksOf(doc, Donor) = {}
\* The other pipe had external links, all were removed before the call of
\* doc.Delete, and the pipe is gone.
C19_Witness ==
    /\ pc = "record"
    /\ tt.path = "main"
    /\ LinksOf(tt.before, Donor) # {}
    /\ LinksOf(tt.at_delete, Donor) = {}
    /\ Donor \notin doc.alive
\* C19 as stated: when TRUE TRIM calls doc.Delete on the other pipe, that
\* pipe has no link left, also when a DisconnectFrom call was rejected.
C19_UnlinkedBeforeDelete ==
    (pc = "record" /\ tt.path = "main") => LinksOf(tt.at_delete, Donor) = {}

\* The links TRUE TRIM has made on the kept pipe, and for such a link its
\* connector of the kept pipe, the external connector and the position
\* recorded for that external.
NewLinks == LinksOf(doc, Keeper) \ LinksOf(tt.before, Keeper)
KeeperEnd(l) == CHOOSE c \in l : Owner(c) = Keeper
ExternalEnd(l) == CHOOSE c \in l : Owner(c) # Keeper
RecordedPosition(l) ==
    tt.conns[CHOOSE k \in 1..Len(tt.conns) :
                 tt.conns[k].connector = ExternalEnd(l)].position
OffBy(c, l) == DistanceTo(Origin(doc, c), RecordedPosition(l))
Relinked == pc = "record" /\ tt.path = "main"

\* C20 (as amended): every link TRUE TRIM makes is to a connector of the
\* kept pipe that was free, lies less than 1 ft (measured after the curve
\* change) from the recorded position, and is the closest to it among the
\* connectors still free, not among all connectors: every closer connector
\* of the kept pipe is connected.  A connector never gets a second link.
C20_ClosestFreePort ==
    Relinked =>
        \A l \in NewLinks :
            /\ \E k \in 1..Len(tt.conns) : tt.conns[k].connector = ExternalEnd(l)
            /\ OffBy(KeeperEnd(l), l) < P(1)
            /\ ~IsConnected(tt.before, KeeperEnd(l))
            /\ \A m \in NewLinks : KeeperEnd(m) = KeeperEnd(l) => m = l
            /\ \A c \in Range(Connectors(doc, Keeper)) :
                   OffBy(c, l) < OffBy(KeeperEnd(l), l) => IsConnected(doc, c)
\* Two externals recorded at the same end of the deleted pipe are linked
\* to the two ends of the kept pipe.
C20_Witness ==
    /\ Relinked
    /\ faults = 0
    /\ Cardinality(NewLinks) = 2
    /\ \A l \in NewLinks : \A m \in NewLinks :
           RecordedPosition(l) = RecordedPosition(m)
    /\ \E l \in NewLinks : OffBy(KeeperEnd(l), l) > 0
\* C20 as stated: every link TRUE TRIM makes is to the connector of the
\* kept pipe closest to the recorded position among all its connectors.
C20_ClosestOfAllPorts ==
    Relinked =>
        \A l \in NewLinks :
            /\ OffBy(KeeperEnd(l), l) < P(1)
            /\ \A c \in Range(Connectors(doc, Keeper)) :
                   OffBy(KeeperEnd(l), l) <= OffBy(c, l)

\* Pairs of endpoint indices <<of c1, of c2>> at the smallest distance.
EndIndex == {1, 2}
ClosestPairs(c1, c2) ==
    {pr \in EndIndex \X EndIndex :
        \A q \in EndIndex \X EndIndex :
            DistanceTo(c1[pr[1]], c2[pr[2]]) <= DistanceTo(c1[q[1]], c2[q[2]])}
Replaced(curve, side, point) == [curve EXCEPT ![side] = point]
\* Both curves have their endpoint of the pair pr at the pair's midpoint, the
\* other endpoint where it was.
MetAtMidpoint(c1, c2, n1, n2, pr) ==
    /\ n1 = Replaced(c1, pr[1], Midpoint(c1[pr[1]], c2[pr[2]]))
    /\ n2 = Replaced(c2, pr[2], Midpoint(c1[pr[1]], c2[pr[2]]))
    /\ n1[pr[1]] = n2[pr[2]]

\* C21: when EXTEND_BOTH reports success the smallest endpoint gap was at
\* most 5 ft, both pipes still exist, each pipe's endpoint of the nearest
\* pair has become the midpoint of that pair (so the pipes share it), each
\* pipe's other endpoint and every other pipe's curve are unchanged, and no
\* element was deleted or created and no link changed.
C21_ExtendBothMeetsAtMidpoint ==
    [][(pc = "EXTEND_BOTH" /\ pc' = "record") =>
         (/\ result' = "EXTEND_BOTH"
          /\ MinDistance(doc.span[pipe1], doc.span[pipe2]) <= 5 * U
          /\ {pipe1, pipe2} \subseteq doc'.alive
          /\ \E pr \in ClosestPairs(doc.span[pipe1], doc.span[pipe2]) :
                MetAtMidpoint(doc.span[pipe1], doc.span[pipe2],
                              doc'.span[pipe1], doc'.span[pipe2], pr)
          /\ \A p \in Pipes \ {pipe1, pipe2} : doc'.span[p] = doc.span[p]
          /\ doc'.alive = doc.alive
          /\ doc'.created = doc.created
          /\ doc'.links = doc.links
          /\ doc'.jloc = doc.jloc)]_vars
\* EXTEND_BOTH succeeded on a gap of exactly 5 ft, and both pipes moved.
C21_Witness ==
    /\ Reported("EXTEND_BOTH")
    /\ GapAtTrim = 5 * U
    /\ doc.span[pipe1] # tt.before.span[pipe1]
    /\ doc.span[pipe2] # tt.before.span[pipe2]

\* Pairs of free ports, one of each pipe, less than 2 ft apart.
PortsOf(d, p) == {c \in {p} \X {0, 1} : p \in d.alive}
FreePairs(d, p1, p2) ==
    {pr \in PortsOf(d, p1) \X PortsOf(d, p2) :
        /\ ~IsConnected(d, pr[1])
        /\ ~IsConnected(d, pr[2])
        /\ DistanceTo(Origin(d, pr[1]), Origin(d, pr[2])) < 2 * U}

\* C22: CONNECTOR adds at most one link, between a port of the first pipe
\* and a port of the second, both free before and less than 2 ft apart, and
\* changes no curve and no element; a pair the host rejects is skipped and
\* the next one tried, so the method fails only when the host rejected
\* every such pair; CONNECTOR is reported exactly when a link was added.
C22_ConnectorLinksOnePair ==
    [][pc = "CONNECTOR" =>
         (/\ doc'.span = doc.span
          /\ doc'.alive = doc.alive
          /\ doc'.created = doc.created
          /\ doc.links \subseteq doc'.links
          /\ Cardinality(doc'.links \ doc.links) <= 1
          /\ \A l \in doc'.links \ doc.links :
                \E pr \in FreePairs(doc, pipe1, pipe2) : l = {pr[1], pr[2]}
          /\ (pc' = "record" /\ result' = "CONNECTOR") <=>
                (doc'.links # doc.links)
          /\ (doc'.links # doc.links) =>
                faults' - faults < Cardinality(FreePairs(doc, pipe1, pipe2))
          /\ (doc'.links = doc.links) =>
                (/\ pc' = "EXTEND"
                 /\ faults' - faults =
                       Cardinality(FreePairs(doc, pipe1, pipe2))))]_vars
\* CONNECTOR linked a pair after the host had rejected an earlier pair.
C22_Witness ==
    /\ Reported("CONNECTOR")
    /\ Link(Conn(pipe1, 0), Conn(pipe2, 1)) \in doc.links
    /\ ~IsConnected(doc, Conn(pipe2, 0))
    /\ DistanceTo(Origin(doc, Conn(pipe1, 0)), Origin(doc, Conn(pipe2, 0))) < 2 * U

\* The new pipe n runs between the two endpoints of the pair pr.
Bridges(d, n, c1, c2, pr) == d.span[n] = <<c1[pr[1]], c2[pr[2]]>>

\* C23: when SEGMENT reports success the smallest endpoint gap was less than
\* 3 ft, exactly one new pipe exists, its curve runs between the two
\* endpoints of the nearest pair, its ports are linked to nothing (no link
\* changed at all), nothing was deleted and every other pipe's curve is
\* unchanged.
C23_SegmentBridgesUnlinked ==
    [][(pc = "SEGMENT" /\ result' = "SEGMENT") =>
         (/\ pc' = "record"
          /\ MinDistance(doc.span[pipe1], doc.span[pipe2]) < 3 * U
          /\ doc.alive \subseteq doc'.alive
          /\ Cardinality(doc'.alive \ doc.alive) = 1
          /\ \A n \in doc'.alive \ doc.alive :
                /\ IsPipe(n)
                /\ \E pr \in ClosestPairs(doc.span[pipe1], doc.span[pipe2]) :
                      Bridges(doc', n, doc.span[pipe1], doc.span[pipe2], pr)
                /\ LinksOf(doc', n) = {}
          /\ doc'.links = doc.links
          /\ \A p \in Pipes \cap doc.alive : doc'.span[p] = doc.span[p])]_vars
\* SEGMENT succeeded on a gap of 2 ft: the bridge exists, linked to nothing.
C23_Witness ==
    /\ Reported("SEGMENT")
    /\ NewIds[doc.created] \in doc.alive
    /\ Length(doc.span[NewIds[doc.created]]) = 2 * U
    /\ LinksOf(doc, NewIds[doc.created]) = {}
\* C23 as stated: the two ports of the new pipe are linked, one to a port of
\* each original pipe.
C23_SegmentPortsLinked ==
    [][(pc = "SEGMENT" /\ result' = "SEGMENT") =>
         \A n \in doc'.alive \ doc.alive :
            \E a \in {0, 1}, b \in {0, 1} :
               /\ Link(Conn(n, 0), Conn(pipe1, a)) \in doc'.links
               /\ Link(Conn(n, 1), Conn(pipe2, b)) \in doc'.links]_vars

\* C24: the proximity search contributes only when the walk over the
\* coupling's connectors found no pipe.  When the walk finds at least one
\* pipe, discovery returns exactly the distinct pipes the coupling's
\* connected connectors refer to, never the coupling itself, whatever other
\* pipes lie within 1 ft of it; a pipe that no connector of the coupling
\* refers to is returned only when the coupling's connectors refer to no
\* pipe at all, and then it lies within 1 ft.
C24_ProximityOnlyWhenWalkEmpty ==
    [][Discovered =>
         (/\ (PipesLinkedTo(doc, selected_elements[i]) # {}) =>
                (/\ Range(connected_pipes') = PipesLinkedTo(doc, selected_elements[i])
                 /\ Len(connected_pipes') =
                       Cardinality(PipesLinkedTo(doc, selected_elements[i])))
          /\ selected_elements[i] \notin Range(connected_pipes')
          /\ \A p \in Range(connected_pipes') \ PipesLinkedTo(doc, selected_elements[i]) :
                /\ PipesLinkedTo(doc, selected_elements[i]) = {}
                /\ p \in PipesNear(doc, selected_elements[i]))]_vars
\* Discovery returned the one pipe linked to J1 although two more pipes lie
\* within 1 ft of J1.
C24_Witness ==
    /\ i = 1
    /\ pc \in {"find", "commit"}
    /\ last = "WRONG_COUNT"
    /\ Len(connected_pipes) = 1
    /\ Range(connected_pipes) = PipesLinkedTo(pre, "J1")
    /\ Cardinality(PipesNear(pre, "J1") \ Range(connected_pipes)) = 2

\* Links of coupling c in d, and those of them that go to pipe p1 or p2.
LinksToPipes(d, c, p1, p2) ==
    {l \in LinksOf(d, c) : \E x \in l : Owner(x) \in {p1, p2}}
Unlinked == doc.links \ doc'.links
Thrown == faults' - faults

\* C25: the coupling is disconnected by at most two methods in a fixed
\* order.  The first goes through the coupling's own connectors, one call
\* per link of the coupling.  When it unlinked something (fewer calls threw
\* than the coupling has links) the second method makes no call: the links
\* removed are exactly those whose call did not throw.  Only when the first
\* unlinked nothing does the second run, through the connectors of the two
\* pipes that refer to the coupling, and it removes only links between the
\* coupling and those pipes.  Whatever the two methods achieved, nothing
\* else in the document changes and the deletion of the coupling is
\* attempted next.
C25_DisconnectMethodsInOrder ==
    [][pc = "disconnect" =>
         (/\ pc' = "delete"
          /\ doc'.links \subseteq doc.links
          /\ Unlinked \subseteq LinksOf(doc, coupling)
          /\ doc'.alive = doc.alive /\ doc'.span = doc.span
          /\ (Thrown < Cardinality(LinksOf(doc, coupling))) =>
                Cardinality(Unlinked) = Cardinality(LinksOf(doc, coupling)) - Thrown
          /\ (Thrown >= Cardinality(LinksOf(doc, coupling))) =>
                (/\ Unlinked \subseteq LinksToPipes(doc, coupling, pipe1, pipe2)
                 /\ Cardinality(Unlinked) =
                       Cardinality(LinksToPipes(doc, coupling, pipe1, pipe2))
                         - (Thrown - Cardinality(LinksOf(doc, coupling)))))]_vars
\* Both calls of the first method threw and the second method unlinked the
\* coupling from both pipes.
C25_Witness ==
    /\ pc = "delete"
    /\ i = 1
    /\ faults = 2
    /\ Cardinality(LinksOf(pre, coupling)) = 2
    /\ LinksOf(doc, coupling) = {}
\* Both methods failed (four calls threw), the coupling is still linked to
\* both pipes, and its deletion comes next all the same.
C25_WitnessBothFailed ==
    /\ pc = "delete"
    /\ i = 1
    /\ faults = 4
    /\ Cardinality(LinksOf(doc, coupling)) = 2

Relocated == doc'.jloc[coupling] # doc.jloc[coupling]
Gone == coupling \notin doc'.alive

\* C26: the coupling is deleted by at most three methods in the order
\* direct, collection, relocate-then-delete.  A method runs only after every
\* earlier one threw and none runs after a success: the coupling is gone
\* after zero, one or two rejected calls, it has been relocated only when
\* the two plain deletions threw, and it is still there only after three
\* rejected calls.  The coupling counts as deleted (reconnection follows)
\* exactly when it is gone; otherwise the iteration ends as an error.
\* Deleting removes the coupling with its links and nothing else.
C26_DeleteMethodsInOrder ==
    [][pc = "delete" =>
         (/\ Gone <=> (pc' = "TRUE_TRIM")
          /\ Gone => Thrown \in 0..2
          /\ Gone => (Relocated <=> Thrown = 2)
          /\ ~Gone => (/\ Thrown = 3
                       /\ last' = "UNDELETABLE"
                       /\ error_count' = error_count + 1
                       /\ pc' \in {"find", "commit"}
                       /\ doc'.links = doc.links)
          /\ Gone => (/\ doc'.alive = doc.alive \ {coupling}
                      /\ doc'.links = doc.links \ LinksOf(doc, coupling)
                      /\ UNCHANGED <<error_count, last, i>>)
          /\ doc'.span = doc.span
          /\ \A j \in Junctions \ {coupling} : doc'.jloc[j] = doc.jloc[j])]_vars
\* The two plain deletions threw and the third method, which relocates the
\* coupling first, deleted it: reconnection is about to start.
C26_Witness ==
    /\ pc = "TRUE_TRIM"
    /\ i = 1
    /\ faults = 2
    /\ coupling \notin doc.alive
    /\ doc.jloc[coupling] = pre.jloc[coupling] + FarAway

\* A run over the chain A - J1 - B - J2 - C, the three pipes end to end in
\* that order, the couplings selected in the order J1, J2, in which no host
\* call has thrown.
ChainRun ==
    /\ selected_elements = <<"J1", "J2">>
    /\ (J1toAB \cup J2toBC) \subseteq started.links
    /\ Hi(started.span["A"]) <= Lo(started.span["B"])
    /\ Hi(started.span["B"]) <= Lo(started.span["C"])
    /\ faults = 0
Survivors(d) == {"A", "B"} \cap d.alive

\* C27: in such a run the discovery for J2, made after the TRUE_TRIM of J1,
\* returns exactly two pipes that exist, the one of A and B that survived
\* the first merge and C; and the batch ends with two successes and a
\* single pipe, running from the start of A to the end of C, whichever of A
\* and B was deleted by the first merge.
C27_ChainRemerged ==
    ChainRun =>
        /\ (i = 2 /\ pc # "find") =>
              /\ Len(connected_pipes) = 2
              /\ Cardinality(Survivors(pre)) = 1
              /\ Range(connected_pipes) = Survivors(pre) \cup {"C"}
              /\ Range(connected_pipes) \subseteq pre.alive
        /\ (i = 2 /\ pc = "find") => (last = "TRUE_TRIM" /\ success_count = 1)
        /\ (pc \in {"commit", "done"}) =>
              /\ success_count = 2
              /\ error_count = 0
              /\ last = "TRUE_TRIM"
              /\ Cardinality(Pipes \cap doc.alive) = 1
              /\ \A p \in Pipes \cap doc.alive :
                    /\ Lo(doc.span[p]) = Lo(started.span["A"])
                    /\ Hi(doc.span[p]) = Hi(started.span["C"])
\* The chain has been merged into pipe B: A was deleted by the first merge
\* and C by the second.
C27_Witness ==
    /\ ChainRun
    /\ pc = "done"
    /\ Pipes \cap doc.alive = {"B"}
    /\ success_count = 2
\* The chain has been merged into pipe A: B was deleted by the first merge
\* and C by the second.
C27_WitnessIntoA ==
    /\ ChainRun
    /\ pc = "done"
    /\ Pipes \cap doc.alive = {"A"}
    /\ success_count = 2

\* C28: when the chain returns FAILURE both pipes still exist and the set
\* of pipes is what it was when the iteration began (none deleted, none
\* created); and a method that reports failure leaves the set of elements
\* as it found it, so a pipe is deleted only by a TRUE TRIM that goes on to
\* report success.
C28_FailureDeletesNothing ==
    /\ [](Reported("FAILURE") =>
            /\ {pipe1, pipe2} \subseteq doc.alive
            /\ Pipes \cap doc.alive = Pipes \cap pre.alive
            /\ doc.created = pre.created)
    /\ [][(pc \in Methods /\ tried' = Append(tried, <<pc, FALSE>>)) =>
            (doc'.alive = doc.alive /\ doc'.created = doc.created)]_vars
    /\ [][(pc \in Methods /\ (Pipes \cap doc.alive) \ doc'.alive # {}) =>
            (pc = "TRUE_TRIM" /\ result' = "TRUE_TRIM" /\ pc' = "record")]_vars
\* The chain returned FAILURE after every method ran, two of them stopped
\* by the host halfway, and both pipes are there.
C28_Witness ==
    /\ Reported("FAILURE")
    /\ Len(tried) = 6
    /\ faults >= 3
    /\ {pipe1, pipe2} \subseteq doc.alive

\* TRUE TRIM took its main path and the host refused to delete the other
\* pipe.
DonorLeft == tt.path = "main" /\ Donor \in doc.alive

\* C29 (as amended): when the host refuses to delete the other pipe at the
\* end of TRUE TRIM's main path, the outcome is still TRUE_TRIM and the
\* coupling is counted as a success, and two pipes remain: the kept pipe
\* with the merged curve, which ends at the other pipe's far endpoint, and
\* the other pipe with its curve unchanged and with only those external
\* links left whose DisconnectFrom call the host rejected as well (none when
\* the deletion was the only rejected call).
C29_RejectedDeleteStillTrim ==
    /\ [](DonorLeft =>
            /\ pc \in {"record", "find", "commit", "done", "aborted"}
            /\ pc = "record" =>
                  /\ result = "TRUE_TRIM"
                  /\ faults >= 1
                  /\ Keeper \in doc.alive
                  /\ doc.span[Keeper] =
                        TrimPlan(tt.main_curve, tt.extend_curve).continuous_curve
                  /\ FarEndpoint \in Range(doc.span[Keeper])
                  /\ doc.span[Donor] = tt.extend_curve
                  /\ LinksOf(doc, Donor) \subseteq LinksOf(tt.before, Donor)
                  /\ Cardinality(LinksOf(doc, Donor)) <= faults - 1
                  /\ doc.alive = tt.before.alive)
    /\ [][(DonorLeft /\ pc = "record") =>
            (success_count' = success_count + 1 /\ error_count' = error_count)]_vars
\* The deletion was the only rejected call: TRUE_TRIM is reported, both
\* pipes are there, and the other pipe, which had an external link, has
\* none left.
C29_Witness ==
    /\ DonorLeft
    /\ pc = "record"
    /\ faults = 1
    /\ LinksOf(tt.before, Donor) # {}
    /\ LinksOf(doc, Donor) = {}
    /\ Keeper \in doc.alive
\* C29 as stated: whenever the deletion of the other pipe was refused, that
\* pipe is left with no external link.
C29_DonorLeftUnlinked ==
    (DonorLeft /\ pc = "record") =>
        /\ result = "TRUE_TRIM"
        /\ Keeper \in doc.alive
        /\ LinksOf(doc, Donor) = {}

\* C30: TRUE TRIM's gate (more than 10 ft is too far) lets through every gap
\* that the gate of EXTEND_BOTH (at most 5 ft), CONNECTOR (port pair closer
\* than 2 ft), EXTEND (less than 5 ft) or SEGMENT (less than 3 ft) lets
\* through, and all are computed from the endpoints of the same two pipes.
\* So when no host call has been rejected, or just when TRUE TRIM's two
\* curve updates were not both rejected, a gap of at most 10 ft ends in
\* TRUE_TRIM; and an outcome EXTEND_BOTH, CONNECTOR, EXTEND or SEGMENT is
\* reached only after the host rejected both the curve update and the
\* backup update inside TRUE TRIM.
C30_OthersOnlyAfterTrimFailure ==
    /\ \A g \in GapRange :
          (\/ ~TooFarToExtend(g)
           \/ g < ConnectorGate
           \/ CloseEnoughToExtend(g)
           \/ CloseEnoughForSegment(g)) => g <= 10 * U
    /\ (pc = "record" /\ GapAtTrim <= 10 * U /\ (faults = 0 \/ tt.path # "failed")) =>
          result = "TRUE_TRIM"
    /\ (pc = "record" /\ result \in {"EXTEND_BOTH", "CONNECTOR", "EXTEND", "SEGMENT"}) =>
          /\ tt.path = "failed"
          /\ faults >= 2
          /\ GapAtTrim <= 10 * U
          /\ tried[1] = <<"TRUE_TRIM", FALSE>>
\* No host call was rejected and a gap of exactly 10 ft ended in TRUE_TRIM.
C30_Witness ==
    /\ Reported("TRUE_TRIM")
    /\ faults = 0
    /\ GapAtTrim = 10 * U
\* EXTEND was the outcome, after the host rejected both curve updates of
\* TRUE TRIM.
C30_WitnessAfterFailure ==
    /\ Reported("EXTEND")
    /\ tt.path = "failed"
    /\ GapAtTrim > 2 * U

====
